---- MODULE Spec2Model ----
(***************************************************************************)
(* Model of src/importer.py: the Awin feed importer.  One run of main()    *)
(* streams the feed rows, normalizes each row into a raw snapshot, a       *)
(* product and an offer, looks the identifier up in the products table,    *)
(* and writes four buffers to the store in batches.                        *)
(*                                                                         *)
(* Texts are sequences of one-character strings, so that strip(), lower()  *)
(* and float() are computed character by character as Python does.         *)
(***************************************************************************)
EXTENDS Integers, Sequences, FiniteSets, TLC

(***************************************************************************)
(* Python values                                                           *)
(***************************************************************************)

\* Python's None, where a text is expected (row.get of a missing column).
None == <<"None">>

\* The literal 0 of `... or 0` (importer.py:94), an int and not a text.
IntZero == <<"int:0">>

\* Python's None as the value of `float(...) or None`.
NoPrice == [py |-> "None"]

\* The exception float() raises on a text that is no number.
ValueError == [py |-> "ValueError"]

Empty == <<>>

Whitespace == {" ", "\t"}

Digits == <<"0", "1", "2", "3", "4", "5", "6", "7", "8", "9">>

UpperCase == <<"A", "B", "C", "D", "E", "F", "G", "H", "I", "J", "K", "L", "M",
               "N", "O", "P", "Q", "R", "S", "T", "U", "V", "W", "X", "Y", "Z">>

LowerCase == <<"a", "b", "c", "d", "e", "f", "g", "h", "i", "j", "k", "l", "m",
               "n", "o", "p", "q", "r", "s", "t", "u", "v", "w", "x", "y", "z">>

\* Truth value of a text-or-None operand of `or`: None and "" are falsy.
Truthy(x) == x # None /\ x # Empty

\* Python's `x or y`.
Or(x, y) == IF Truthy(x) THEN x ELSE y

\* dict.get: None for a column the row does not have.
Get(row, col) == IF col \in DOMAIN row THEN row[col] ELSE None

RECURSIVE LStrip(_)
LStrip(s) == IF s # Empty /\ Head(s) \in Whitespace THEN LStrip(Tail(s)) ELSE s

RECURSIVE RStrip(_)
RStrip(s) ==
    IF s # Empty /\ s[Len(s)] \in Whitespace
    THEN RStrip(SubSeq(s, 1, Len(s) - 1))
    ELSE s

\* str.strip()
Strip(s) == RStrip(LStrip(s))

LowerChar(c) ==
    IF \E k \in 1..Len(UpperCase) : UpperCase[k] = c
    THEN LowerCase[CHOOSE k \in 1..Len(UpperCase) : UpperCase[k] = c]
    ELSE c

\* str.lower()
Lower(s) == [k \in 1..Len(s) |-> LowerChar(s[k])]

(***************************************************************************)
(* float(): a decimal (-1)^neg * num * 10^(-exp), kept normalized (no      *)
(* trailing zero in the fraction), so that "12.50" and "12.5" are the same *)
(* float.  The grammar is Python's for the characters the feeds of this    *)
(* model use: optional surrounding whitespace, an optional sign, digits    *)
(* with at most one point and at least one digit.  Exponents, inf, nan and *)
(* underscores use characters no price text of the model contains.         *)
(***************************************************************************)

IsDigit(c) == \E k \in 1..Len(Digits) : Digits[k] = c

DigitVal(c) == (CHOOSE k \in 1..Len(Digits) : Digits[k] = c) - 1

RECURSIVE DigitsValue(_)
DigitsValue(s) ==
    IF s = Empty THEN 0
    ELSE 10 * DigitsValue(SubSeq(s, 1, Len(s) - 1)) + DigitVal(s[Len(s)])

RECURSIVE Normalize(_, _, _)
Normalize(neg, num, exp) ==
    IF num = 0 THEN [neg |-> neg, num |-> 0, exp |-> 0]
    ELSE IF exp > 0 /\ num % 10 = 0 THEN Normalize(neg, num \div 10, exp - 1)
    ELSE [neg |-> neg, num |-> num, exp |-> exp]

PointAt(s) == {k \in 1..Len(s) : s[k] = "."}

ParseUnsigned(neg, s) ==
    LET pts == PointAt(s)
        p == IF pts = {} THEN Len(s) + 1 ELSE CHOOSE k \in pts : TRUE
        ip == SubSeq(s, 1, p - 1)
        fp == SubSeq(s, p + 1, Len(s))
        ds == ip \o fp
    IN  IF /\ Cardinality(pts) <= 1
           /\ ds # Empty
           /\ \A k \in 1..Len(ds) : IsDigit(ds[k])
        THEN Normalize(neg, DigitsValue(ds), Len(fp))
        ELSE ValueError

\* float(x) for x a text or the int 0
Float(x) ==
    IF x = IntZero THEN [neg |-> FALSE, num |-> 0, exp |-> 0]
    ELSE LET s == Strip(x)
         IN  IF s = Empty THEN ValueError
             ELSE IF Head(s) = "-" THEN ParseUnsigned(TRUE, Tail(s))
             ELSE IF Head(s) = "+" THEN ParseUnsigned(FALSE, Tail(s))
             ELSE ParseUnsigned(FALSE, s)

\* Truth value of a float: 0.0 and -0.0 are falsy.
FloatTruthy(f) == f.num # 0

(***************************************************************************)
(* Row normalization: the body of the loop of main(), lines 62-99          *)
(***************************************************************************)

Columns == {"aw_product_id", "ean", "product_name", "brand_name", "merchant_name",
            "search_price", "store_price", "currency", "in_stock", "aw_deep_link"}

PadelMarket == <<"P", "a", "d", "e", "l", " ", "M", "a", "r", "k", "e", "t">>

StockTokens == {<<"1">>, <<"t", "r", "u", "e">>, <<"y", "e", "s">>}

\* `s or None` for a text s
OrNone(s) == IF s = Empty THEN None ELSE s

\* line 62
Ean(row) == Strip(Or(Get(row, "ean"), Empty))

\* line 67
ProductName(row) == Strip(Or(Get(row, "product_name"), Empty))

\* line 68
Brand(row) == OrNone(Strip(Or(Get(row, "brand_name"), Empty)))

\* RawRow as it would be if the payload were built from the trimmed fields
RawRow_Trimmed(row) ==
    [aw_product_id |-> Strip(Or(Get(row, "aw_product_id"), Empty)),
     ean |-> Ean(row),
     product_name |-> ProductName(row),
     raw_json |-> [c \in DOMAIN row |-> IF row[c] = None THEN None ELSE Strip(row[c])]]

\* lines 71-76
RawRow(row) ==
    [aw_product_id |-> Strip(Or(Get(row, "aw_product_id"), Empty)),
     ean |-> Ean(row),
     product_name |-> ProductName(row),
     raw_json |-> row]

\* ProductRow as it would be with row.get("ean") in place of the trimmed ean
ProductRow_RawEan(row, now) ==
    [ean |-> Or(Get(row, "ean"), Empty),
     brand |-> Brand(row),
     model |-> None,
     model_year |-> None,
     product_name |-> ProductName(row),
     updated_at |-> now]

\* lines 80-87
ProductRow(row, now) ==
    [ean |-> Ean(row),
     brand |-> Brand(row),
     model |-> None,
     model_year |-> None,
     product_name |-> ProductName(row),
     updated_at |-> now]

\* PriceArg as it would be with the two price columns swapped
PriceArg_StoreFirst(row) ==
    Or(Or(Get(row, "store_price"), Get(row, "search_price")), IntZero)

\* line 94, the argument of float(): search_price or store_price or 0
PriceArg(row) == Or(Or(Get(row, "search_price"), Get(row, "store_price")), IntZero)

\* line 94: float(...) or None; ValueError when float() raises
Price(row) ==
    LET f == Float(PriceArg(row))
    IN  IF f = ValueError THEN ValueError
        ELSE IF FloatTruthy(f) THEN f ELSE NoPrice

\* InStock as it would be without .lower()
InStock_NoLower(row) == Strip(Or(Get(row, "in_stock"), Empty)) \in StockTokens

\* line 96
InStock(row) == Lower(Strip(Or(Get(row, "in_stock"), Empty))) \in StockTokens

\* OfferRow as it would be with row.get("ean") in place of the trimmed ean
OfferRow_RawEan(row, now) ==
    [product_ean |-> Or(Get(row, "ean"), Empty),
     retailer |-> Strip(Or(Get(row, "merchant_name"), PadelMarket)),
     network |-> "awin",
     price |-> Price(row),
     currency |-> OrNone(Strip(Or(Get(row, "currency"), Empty))),
     in_stock |-> InStock(row),
     affiliate_link |-> Strip(Or(Get(row, "aw_deep_link"), Empty)),
     last_seen |-> now]

\* lines 90-99 (evaluated only when Price(row) is no ValueError)
OfferRow(row, now) ==
    [product_ean |-> Ean(row),
     retailer |-> Strip(Or(Get(row, "merchant_name"), PadelMarket)),
     network |-> "awin",
     price |-> Price(row),
     currency |-> OrNone(Strip(Or(Get(row, "currency"), Empty))),
     in_stock |-> InStock(row),
     affiliate_link |-> Strip(Or(Get(row, "aw_deep_link"), Empty)),
     last_seen |-> now]

\* lines 105-108
QueueRow(ean) == [product_ean |-> ean, reason |-> "new_product"]

(***************************************************************************)
(* The store behind the REST interface: four tables, each a list of rows.  *)
(***************************************************************************)

Tables == {"product_raw_feed", "products", "offers", "review_queue"}

\* The rows written with on_conflict=ean, one after the other: a row
\* replaces the row of the same ean, or is added.  So a table row is replaced
\* by the last row of its ean in the list, and the eans the table lacks are
\* added in the order of their first rows, each with its last row.
UpsertRows(table, rows) ==
    LET InRows(e) == \E k \in 1..Len(rows) : rows[k].ean = e
        InTable(e) == \E k \in 1..Len(table) : table[k].ean = e
        LastOf(e) ==
            rows[CHOOSE k \in 1..Len(rows) :
                   /\ rows[k].ean = e
                   /\ \A j \in (k + 1)..Len(rows) : rows[j].ean # e]
        IsFirstNew(k) ==
            /\ ~InTable(rows[k].ean)
            /\ \A j \in 1..(k - 1) : rows[j].ean # rows[k].ean
        added == SelectSeq([k \in 1..Len(rows) |-> k], IsFirstNew)
    IN  [k \in 1..Len(table) |->
            IF InRows(table[k].ean) THEN LastOf(table[k].ean) ELSE table[k]]
        \o [k \in 1..Len(added) |-> LastOf(rows[added[k]].ean)]

\* Written as it would be if on_conflict were not passed: a plain insert
Written_Insert(table, rows, on_conflict) == table \o rows

\* The effect of a successful POST of lines 23-28 on a table.
Written(table, rows, on_conflict) ==
    IF on_conflict = "ean" THEN UpsertRows(table, rows) ELSE table \o rows

\* lines 33-37 on a successful response: r.json(), the matching rows cut
\* by limit=1.
SelectData(table, ean) ==
    IF \E k \in 1..Len(table) : table[k].ean = ean
    THEN <<table[CHOOSE k \in 1..Len(table) :
                   /\ table[k].ean = ean
                   /\ \A j \in 1..(k - 1) : table[j].ean # ean]>>
    ELSE Empty

\* Existing as it would be if the query had no ean filter
Existing_AnyRow(table, ean) == table # Empty

\* line 38 and line 104: `data[0] if data else None` is truthy exactly when
\* data holds a row.
Existing(table, ean) == SelectData(table, ean) # Empty

(***************************************************************************)
(* Feeds                                                                   *)
(***************************************************************************)

\* Rows of a short feed
MaxRows == 3

\* A long feed has m * RAW_CHUNK + k rows, m in 1..MaxChunks, k in 0..MaxExtra
MaxChunks == 2

MaxExtra == 1

\* Runs of main(), one after the other or concurrent
MaxRuns == 2

\* The clock advances by at most MaxTick between two runs
MaxTick == 1

\* lines 111, 114, 117, 120: the chunk sizes
RAW_CHUNK == 500

PRODUCT_CHUNK == 500

OFFER_CHUNK == 500

QUEUE_CHUNK == 100

BaseRow(ean) ==
    [aw_product_id |-> <<"7">>,
     ean |-> ean,
     product_name |-> <<"R">>,
     brand_name |-> <<"N">>,
     merchant_name |-> None,
     search_price |-> <<"9", ".", "9", "9">>,
     store_price |-> None,
     currency |-> <<"E", "U", "R">>,
     in_stock |-> <<"1">>,
     aw_deep_link |-> <<"u">>]

EanTexts == {None, Empty, <<" ">>, <<"A">>, <<" ", "A", " ">>, <<"B">>}

PrimaryTexts ==
    {None, Empty, <<"0">>, <<"0", ".", "0">>, <<"-", "0">>,
     <<"1", "2", ".", "5", "0">>, <<"1", "2", ".", "5">>, <<" ", "7", " ">>,
     <<"-", "5">>, <<"+", "5">>, <<".", "5">>, <<"5", ".">>, <<".">>,
     <<"a", "b", "c">>, <<" ">>, <<"1", ".", "2", ".", "3">>}

SecondaryTexts ==
    {None, Empty, <<"1", "2", ".", "5", "0">>, <<"9", ".", "9", "9">>, <<"0">>,
     <<"-", "1">>, <<"x">>}

StockTexts ==
    {None, Empty, <<"1">>, <<"t", "r", "u", "e">>, <<"Y", "e", "s">>,
     <<"T", "R", "U", "E">>, <<" ", "y", "e", "s", "\t">>, <<"n", "o">>, <<"0">>,
     <<"y">>, <<"1", "1">>, <<" ", "T", "r", "u", "e">>, <<"t", "r", "u", "e", "1">>}

PriceRows ==
    {[BaseRow(<<"A">>) EXCEPT !["search_price"] = sp, !["store_price"] = st] :
        sp \in PrimaryTexts, st \in SecondaryTexts}

StockRows == {[BaseRow(<<"A">>) EXCEPT !["in_stock"] = t] : t \in StockTexts}

EanRows == {BaseRow(e) : e \in EanTexts}

\* Rows with blank or missing name, brand, merchant, currency, link and id
PlainRows ==
    {[BaseRow(<<"B">>) EXCEPT !["product_name"] = n, !["brand_name"] = b,
                              !["merchant_name"] = m, !["currency"] = b,
                              !["aw_deep_link"] = n, !["aw_product_id"] = b] :
        n \in {None, <<" ", "S", " ">>}, b \in {None, <<" ">>, <<"N", " ">>},
        m \in {None, Empty, <<" ", "M">>}}

\* A row of a feed whose header has the columns ean and product_name only
NarrowRow(e, n) == [c \in {"ean", "product_name"} |-> IF c = "ean" THEN e ELSE n]

WideRows == PriceRows \cup StockRows \cup EanRows \cup PlainRows \cup {NarrowRow(<<"A">>, <<"R">>)}

RowBlank == BaseRow(<<" ">>)

RowA == BaseRow(<<"A">>)

\* The same identifier as RowA, other name and prices ("", "12.50")
RowA2 ==
    [BaseRow(<<" ", "A", " ">>) EXCEPT !["product_name"] = <<"S">>,
                                       !["search_price"] = Empty,
                                       !["store_price"] = <<"1", "2", ".", "5", "0">>]

RowB ==
    [BaseRow(<<"B">>) EXCEPT !["search_price"] = Empty, !["store_price"] = Empty,
                             !["in_stock"] = <<"y", "e", "s">>]

RowBad == [BaseRow(<<"B">>) EXCEPT !["search_price"] = <<"a", "b", "c">>]

CoreRows == {RowBlank, RowA, RowA2, RowB, RowBad}

RECURSIVE SeqsUpTo(_, _)
SeqsUpTo(S, n) ==
    IF n = 0 THEN {Empty}
    ELSE LET shorter == SeqsUpTo(S, n - 1)
         IN  shorter \cup {Append(f, r) : f \in {g \in shorter : Len(g) = n - 1}, r \in S}

\* A feed is the row sequence of a short feed, or the length of a long one:
\* the reader yields the rows one by one, and row k of a long feed is
\* LongRow(k).
ShortFeeds ==
    {[n |-> Len(f), rows |-> f] :
        f \in SeqsUpTo(CoreRows, MaxRows) \cup {<<r>> : r \in WideRows}}

\* Row k of a long feed: every seventh row has a blank identifier, the
\* others carry identifier A up to row 300 and B after it.
LongRow(k) ==
    IF k % 7 = 0 THEN NarrowRow(<<" ">>, <<"R">>)
    ELSE IF k > 300 THEN NarrowRow(<<"B">>, <<"R">>)
    ELSE IF k % 2 = 0 THEN NarrowRow(<<" ", "A", " ">>, <<"S">>)
    ELSE NarrowRow(<<"A">>, <<"R">>)

\* Lengths that give m * RAW_CHUNK + x rows with an identifier
LongFeeds ==
    {[n |-> m * RAW_CHUNK + m * (RAW_CHUNK \div 6) + x, rows |-> Empty] :
        m \in 1..MaxChunks, x \in 0..MaxExtra}

Feeds == ShortFeeds \cup LongFeeds

\* The k-th row the reader yields
FeedRow(f, k) == IF f.rows = Empty THEN LongRow(k) ELSE f.rows[k]

\* The products table before the first run: empty, or holding B
OldB ==
    [ean |-> <<"B">>, brand |-> <<"o">>, model |-> None, model_year |-> None,
     product_name |-> <<"o">>, updated_at |-> 0]

InitialProducts == {Empty, <<OldB>>}

(***************************************************************************)
(* State                                                                   *)
(***************************************************************************)

Runs == 1..MaxRuns

VARIABLES
    feed,            \* the feed csv.DictReader reads, the same for every run
    db,              \* the store: table name -> list of rows
    clock,           \* the UTC clock read at line 50
    pc,              \* per run: the line main() is at, or how it ended
    pos,             \* per run: rows read from the reader so far
    count,           \* per run: line 57
    now,             \* per run: line 50
    ean,             \* per run: line 62, the identifier of the current row
    raw_rows,        \* per run: line 55
    product_rows,    \* per run: line 53
    offer_rows,      \* per run: line 54
    new_queue_rows,  \* per run: line 52
    printed,         \* per run: the row count printed at line 130, -1 before
    calls,           \* per run: the calls of supabase_upsert, in order
    requests,        \* per run: HTTP requests sent to the store
    selects,         \* per run: calls of supabase_select_one
    queued,          \* per run: rows appended to new_queue_rows (line 105)
    failed,          \* per run: requests sent when the first request failed, -1 before
    snapshots,       \* the products table as each completed run left it
    before           \* the products table before the first run

vars ==
    <<feed, db, clock, pc, pos, count, now, ean, raw_rows, product_rows, offer_rows,
      new_queue_rows, printed, calls, requests, selects, queued, failed, snapshots,
      before>>

locals == <<pos, count, ean, raw_rows, product_rows, offer_rows, new_queue_rows>>

ghosts == <<calls, requests, selects, queued, failed>>

\* The state of a run at line 57, before the loop
Fresh(first, t) ==
    /\ pc = [p \in Runs |-> IF p \in first THEN "for" ELSE "idle"]
    /\ pos = [p \in Runs |-> 0]
    /\ count = [p \in Runs |-> 0]
    /\ now = [p \in Runs |-> IF p \in first THEN t[p] ELSE 0]
    /\ ean = [p \in Runs |-> Empty]
    /\ raw_rows = [p \in Runs |-> Empty]
    /\ product_rows = [p \in Runs |-> Empty]
    /\ offer_rows = [p \in Runs |-> Empty]
    /\ new_queue_rows = [p \in Runs |-> Empty]
    /\ printed = [p \in Runs |-> -1]
    /\ calls = [p \in Runs |-> Empty]
    /\ requests = [p \in Runs |-> 0]
    /\ selects = [p \in Runs |-> 0]
    /\ queued = [p \in Runs |-> 0]
    /\ failed = [p \in Runs |-> -1]
    /\ snapshots = Empty

InitialDb(products) ==
    [t \in Tables |-> IF t = "products" THEN products ELSE Empty]

\* One run has started (lines 41-57); the others wait for it to complete.
Init ==
    /\ feed \in Feeds
    /\ \E products \in InitialProducts : db = InitialDb(products)
    /\ before = db["products"]
    /\ clock = 1
    /\ Fresh({1}, [p \in Runs |-> 1])

(***************************************************************************)
(* supabase_upsert and supabase_select_one                                 *)
(***************************************************************************)

\* supabase_upsert as it would be without lines 20-21: an empty list is
\* posted like any other
supabase_upsert_NoGuard(p, table, rows, on_conflict, line, ok) ==
    /\ calls' = [calls EXCEPT ![p] = Append(@, [table |-> table, n |-> Len(rows), line |-> line])]
    /\ requests' = [requests EXCEPT ![p] = @ + 1]
    /\ IF ok
       THEN /\ db' = [db EXCEPT ![table] = Written(@, rows, on_conflict)]
            /\ UNCHANGED failed
       ELSE /\ failed' = [failed EXCEPT ![p] = requests'[p]]
            /\ UNCHANGED db

\* lines 19-30.  ok: the response status is below 300.  An empty list
\* returns at line 21 before any request.
supabase_upsert(p, table, rows, on_conflict, line, ok) ==
    /\ calls' = [calls EXCEPT ![p] = Append(@, [table |-> table, n |-> Len(rows), line |-> line])]
    /\ IF rows = Empty
       THEN /\ ok
            /\ UNCHANGED <<db, requests, failed>>
       ELSE /\ requests' = [requests EXCEPT ![p] = @ + 1]
            /\ IF ok
               THEN /\ db' = [db EXCEPT ![table] = Written(@, rows, on_conflict)]
                    /\ UNCHANGED failed
               ELSE /\ failed' = [failed EXCEPT ![p] = requests'[p]]
                    /\ UNCHANGED db

\* After as it would be if the status were not checked (or the error caught)
After_Swallowed(ok, next) == next

\* The line main() continues at after a store call: the RuntimeError of
\* lines 30 and 36 is not caught.
After(ok, next) == IF ok THEN next ELSE "RuntimeError"

(***************************************************************************)
(* main()                                                                  *)
(***************************************************************************)

\* Skip as it would be with `if ean is None`: only a missing identifier skips
Skip_MissingOnly(row) == Get(row, "ean") = None

\* line 63: `if not ean`
Skip(row) == Ean(row) = Empty

\* Full as it would be with `len(rows) > size`
Full_Late(rows, size) == Len(rows) > size

\* lines 111, 114, 117, 120: `len(rows) >= size`
Full(rows, size) == Len(rows) >= size

\* lines 58-99: the next row is read, counted and normalized.
ReadRow(p) ==
    /\ pc[p] = "for"
    /\ pos[p] < feed.n
    /\ LET row == FeedRow(feed, pos[p] + 1)
       IN  /\ pos' = [pos EXCEPT ![p] = @ + 1]
           /\ count' = [count EXCEPT ![p] = @ + 1]
           /\ ean' = [ean EXCEPT ![p] = Ean(row)]
           /\ IF Skip(row)
              THEN /\ pc' = pc
                   /\ UNCHANGED <<raw_rows, product_rows, offer_rows>>
              ELSE /\ raw_rows' = [raw_rows EXCEPT ![p] = Append(@, RawRow(row))]
                   /\ product_rows' = [product_rows EXCEPT ![p] = Append(@, ProductRow(row, now[p]))]
                   /\ IF Price(row) = ValueError
                      THEN /\ pc' = [pc EXCEPT ![p] = "ValueError"]
                           /\ UNCHANGED offer_rows
                      ELSE /\ pc' = [pc EXCEPT ![p] = "select"]
                           /\ offer_rows' = [offer_rows EXCEPT ![p] = Append(@, OfferRow(row, now[p]))]
    /\ UNCHANGED <<before, feed, db, clock, now, new_queue_rows, printed, snapshots, ghosts>>

\* Select as it would be if the product of the row were written before the
\* lookup
Select_AfterWrite(p) ==
    /\ pc[p] = "select"
    /\ \E ok \in BOOLEAN :
        /\ pc' = [pc EXCEPT ![p] = After(ok, "chunk_raw")]
        /\ requests' = [requests EXCEPT ![p] = @ + 1]
        /\ selects' = [selects EXCEPT ![p] = @ + 1]
        /\ failed' = IF ok THEN failed ELSE [failed EXCEPT ![p] = requests'[p]]
        /\ IF ok /\ ~Existing(Written(db["products"], product_rows[p], "ean"), ean[p])
           THEN /\ new_queue_rows' = [new_queue_rows EXCEPT ![p] = Append(@, QueueRow(ean[p]))]
                /\ queued' = [queued EXCEPT ![p] = @ + 1]
           ELSE UNCHANGED <<new_queue_rows, queued>>
    /\ UNCHANGED <<before, feed, db, clock, pos, count, now, ean, raw_rows, product_rows,
                   offer_rows, printed, calls, snapshots>>

\* lines 103-108: the novelty lookup
Select(p) ==
    /\ pc[p] = "select"
    /\ \E ok \in BOOLEAN :
        /\ pc' = [pc EXCEPT ![p] = After(ok, "chunk_raw")]
        /\ requests' = [requests EXCEPT ![p] = @ + 1]
        /\ selects' = [selects EXCEPT ![p] = @ + 1]
        /\ failed' = IF ok THEN failed ELSE [failed EXCEPT ![p] = requests'[p]]
        /\ IF ok /\ ~Existing(db["products"], ean[p])
           THEN /\ new_queue_rows' = [new_queue_rows EXCEPT ![p] = Append(@, QueueRow(ean[p]))]
                /\ queued' = [queued EXCEPT ![p] = @ + 1]
           ELSE UNCHANGED <<new_queue_rows, queued>>
    /\ UNCHANGED <<before, feed, db, clock, pos, count, now, ean, raw_rows, product_rows,
                   offer_rows, printed, calls, snapshots>>

\* A chunk step: `if len(rows) >= size: supabase_upsert(...); rows = []`
Chunk(p, at, table, rows, size, on_conflict, line, next) ==
    /\ pc[p] = at
    /\ IF Full(rows[p], size)
       THEN \E ok \in BOOLEAN :
               /\ supabase_upsert(p, table, rows[p], on_conflict, line, ok)
               /\ pc' = [pc EXCEPT ![p] = After(ok, next)]
               /\ rows' = IF ok THEN [rows EXCEPT ![p] = Empty] ELSE rows
       ELSE /\ pc' = [pc EXCEPT ![p] = next]
            /\ UNCHANGED <<rows, db, calls, requests, failed>>

\* lines 111-113
ChunkRaw(p) ==
    /\ Chunk(p, "chunk_raw", "product_raw_feed", raw_rows, RAW_CHUNK, "", 112, "chunk_products")
    /\ UNCHANGED <<before, feed, clock, pos, count, now, ean, product_rows, offer_rows,
                   new_queue_rows, printed, selects, queued, snapshots>>

\* lines 114-116
ChunkProducts(p) ==
    /\ Chunk(p, "chunk_products", "products", product_rows, PRODUCT_CHUNK, "ean", 115, "chunk_offers")
    /\ UNCHANGED <<before, feed, clock, pos, count, now, ean, raw_rows, offer_rows,
                   new_queue_rows, printed, selects, queued, snapshots>>

\* lines 117-119
ChunkOffers(p) ==
    /\ Chunk(p, "chunk_offers", "offers", offer_rows, OFFER_CHUNK, "", 118, "chunk_queue")
    /\ UNCHANGED <<before, feed, clock, pos, count, now, ean, raw_rows, product_rows,
                   new_queue_rows, printed, selects, queued, snapshots>>

\* ChunkQueue as it would be with the threshold of the other three lists
ChunkQueue_RawSize(p) ==
    /\ Chunk(p, "chunk_queue", "review_queue", new_queue_rows, RAW_CHUNK, "", 121, "for")
    /\ UNCHANGED <<before, feed, clock, pos, count, now, ean, raw_rows, product_rows,
                   offer_rows, printed, selects, queued, snapshots>>

\* lines 120-122
ChunkQueue(p) ==
    /\ Chunk(p, "chunk_queue", "review_queue", new_queue_rows, QUEUE_CHUNK, "", 121, "for")
    /\ UNCHANGED <<before, feed, clock, pos, count, now, ean, raw_rows, product_rows,
                   offer_rows, printed, selects, queued, snapshots>>

\* line 58: the reader is exhausted
EndOfFeed(p) ==
    /\ pc[p] = "for"
    /\ pos[p] = feed.n
    /\ pc' = [pc EXCEPT ![p] = "flush_raw"]
    /\ UNCHANGED <<before, feed, db, clock, now, printed, snapshots, locals, ghosts>>

\* A leftover flush: supabase_upsert(...) whatever the list holds
Flush(p, at, table, rows, on_conflict, line, next) ==
    /\ pc[p] = at
    /\ \E ok \in BOOLEAN :
        /\ supabase_upsert(p, table, rows, on_conflict, line, ok)
        /\ pc' = [pc EXCEPT ![p] = After(ok, next)]

\* line 125
FlushRaw(p) ==
    /\ Flush(p, "flush_raw", "product_raw_feed", raw_rows[p], "", 125, "flush_products")
    /\ UNCHANGED <<before, feed, clock, now, printed, selects, queued, snapshots, locals>>

\* FlushProducts as it would be without line 126
FlushProducts_Skipped(p) ==
    /\ pc[p] = "flush_products"
    /\ pc' = [pc EXCEPT ![p] = "flush_offers"]
    /\ UNCHANGED <<before, feed, db, clock, now, printed, snapshots, locals, ghosts>>

\* line 126
FlushProducts(p) ==
    /\ Flush(p, "flush_products", "products", product_rows[p], "ean", 126, "flush_offers")
    /\ UNCHANGED <<before, feed, clock, now, printed, selects, queued, snapshots, locals>>

\* FlushOffers as it would be without line 127
FlushOffers_Forgotten(p) ==
    /\ pc[p] = "flush_offers"
    /\ pc' = [pc EXCEPT ![p] = "flush_queue"]
    /\ UNCHANGED <<before, feed, db, clock, now, printed, snapshots, locals, ghosts>>

\* line 127
FlushOffers(p) ==
    /\ Flush(p, "flush_offers", "offers", offer_rows[p], "", 127, "flush_queue")
    /\ UNCHANGED <<before, feed, clock, now, printed, selects, queued, snapshots, locals>>

\* lines 128-130: the last flush, and the row count is printed
FlushQueue(p) ==
    /\ pc[p] = "flush_queue"
    /\ \E ok \in BOOLEAN :
        /\ supabase_upsert(p, "review_queue", new_queue_rows[p], "", 128, ok)
        /\ pc' = [pc EXCEPT ![p] = After(ok, "done")]
        /\ printed' = IF ok THEN [printed EXCEPT ![p] = count[p]] ELSE printed
        /\ snapshots' = IF ok THEN Append(snapshots, db'["products"]) ELSE snapshots
    /\ UNCHANGED <<before, feed, clock, now, selects, queued, locals>>

\* main() is run again on the same feed once the run before it has
\* completed: lines 41-57.
Rerun(p) ==
    /\ p > 1
    /\ pc[p] = "idle"
    /\ pc[p - 1] = "done"
    /\ \E t \in clock..(clock + MaxTick) :
        /\ clock' = t
        /\ now' = [now EXCEPT ![p] = t]
    /\ pc' = [pc EXCEPT ![p] = "for"]
    /\ UNCHANGED <<before, feed, db, printed, snapshots, locals, ghosts>>

Step(p) ==
    \/ ReadRow(p)
    \/ Select(p)
    \/ ChunkRaw(p)
    \/ ChunkProducts(p)
    \/ ChunkOffers(p)
    \/ ChunkQueue(p)
    \/ EndOfFeed(p)
    \/ FlushRaw(p)
    \/ FlushProducts(p)
    \/ FlushOffers(p)
    \/ FlushQueue(p)

\* One run of main()
Next == \E p \in Runs : Step(p)

Spec == Init /\ [][Next]_vars

\* Runs of main() one after the other on one short feed
InitTwice ==
    /\ feed \in ShortFeeds
    /\ \E products \in InitialProducts : db = InitialDb(products)
    /\ before = db["products"]
    /\ clock = 1
    /\ Fresh({1}, [p \in Runs |-> 1])

NextTwice == \E p \in Runs : Step(p) \/ Rerun(p)

SpecTwice == InitTwice /\ [][NextTwice]_vars

\* Rows of a feed concurrent runs read
MaxRaceRows == 2

\* Two concurrent runs of main() on one short feed, started at the same
\* clock reading
InitRace ==
    /\ feed \in {[n |-> Len(f), rows |-> f] :
                    f \in SeqsUpTo({RowBlank, RowA, RowB}, MaxRaceRows)}
    /\ \E products \in InitialProducts : db = InitialDb(products)
    /\ before = db["products"]
    /\ clock = 1
    /\ Fresh({1, 2}, [p \in Runs |-> 1])

NextRace == \E p \in Runs : Step(p)

SpecRace == InitRace /\ [][NextRace]_vars

(***************************************************************************)
(* Properties                                                              *)
(***************************************************************************)

\* The calls of supabase_upsert run p made at a source line, in order
CallsAt(p, line) == SelectSeq(calls[p], LAMBDA c : c.line = line)

\* The calls of supabase_upsert run p made for a table, in order
CallsFor(p, table) == SelectSeq(calls[p], LAMBDA c : c.table = table)

\* The rows of the feed that have an identifier
ValidRows == {k \in 1..feed.n : Ean(FeedRow(feed, k)) # Empty}

\* The row run p read last
LastRow(p) == FeedRow(feed, pos[p])

\* C1: in one run of main() the review_queue rows written contain no
\* identifier twice, also when several rows of the feed carry it.
C1_OncePerIdentifier ==
    \A i, j \in 1..Len(db["review_queue"]) :
        i # j => db["review_queue"][i].product_ean # db["review_queue"][j].product_ean

\* C2: a row with an identifier whose selected price text is no decimal
\* does not make the run fail: the run goes on to the row's lookup with an
\* offer of absent price.
C2_UnparsablePriceIsAbsent ==
    \A p \in Runs :
        (/\ pos[p] > 0
         /\ Ean(LastRow(p)) # Empty
         /\ Float(PriceArg(LastRow(p))) = ValueError)
        => pc[p] # "ValueError"

\* C3: a row whose identifier is blank after trimming adds nothing to any
\* buffer, writes nothing, triggers no lookup and no other request, and is
\* counted; a completed run prints the number of rows of the feed.
C3_BlankRow(p) ==
    (/\ pc[p] = "for"
     /\ pos[p] < feed.n
     /\ pos'[p] = pos[p] + 1
     /\ Strip(Or(Get(FeedRow(feed, pos[p] + 1), "ean"), Empty)) = Empty)
    => /\ raw_rows'[p] = raw_rows[p]
       /\ product_rows'[p] = product_rows[p]
       /\ offer_rows'[p] = offer_rows[p]
       /\ new_queue_rows'[p] = new_queue_rows[p]
       /\ db' = db
       /\ selects'[p] = selects[p]
       /\ requests'[p] = requests[p]
       /\ calls'[p] = calls[p]
       /\ count'[p] = count[p] + 1
       /\ pc'[p] = "for"

C3_BlankSkippedAndCounted ==
    /\ [][\A p \in Runs : C3_BlankRow(p)]_vars
    /\ [](\A p \in Runs : pc[p] = "done" => printed[p] = feed.n)

C3_Witness ==
    /\ pc[1] = "done"
    /\ printed[1] = 3
    /\ Cardinality(ValidRows) = 1
    /\ selects[1] = 1
    /\ Len(db["product_raw_feed"]) = 1

\* C4: a stream of n rows with chunk size T is written as n \div T chunk
\* calls of exactly T rows, made as soon as the buffer holds T rows, and then
\* one leftover call of n % T rows.  n is the number of lookups made for the
\* raw, product and offer streams and the number of rows queued for the
\* review queue.
C4_Stream(p, table, buffer, T, chunk, flush, n) ==
    /\ \A k \in 1..Len(CallsAt(p, chunk)) : CallsAt(p, chunk)[k].n = T
    /\ pc[p] = "for" =>
          /\ Len(CallsAt(p, chunk)) = n \div T
          /\ Len(buffer) = n % T
          /\ CallsAt(p, flush) = Empty
    /\ pc[p] = "done" =>
          /\ CallsFor(p, table) = CallsAt(p, chunk) \o CallsAt(p, flush)
          /\ Len(CallsAt(p, chunk)) = n \div T
          /\ Len(CallsAt(p, flush)) = 1
          /\ CallsAt(p, flush)[1].n = n % T

C4_ThresholdBatching ==
    \A p \in Runs :
        /\ C4_Stream(p, "product_raw_feed", raw_rows[p], 500, 112, 125, selects[p])
        /\ C4_Stream(p, "products", product_rows[p], 500, 115, 126, selects[p])
        /\ C4_Stream(p, "offers", offer_rows[p], 500, 118, 127, selects[p])
        /\ C4_Stream(p, "review_queue", new_queue_rows[p], 100, 121, 128, queued[p])
        /\ pc[p] = "done" => selects[p] = Cardinality(ValidRows)

\* 501 rows with an identifier: one chunk of 500, then a leftover flush of 1;
\* and the review queue was written in more than one chunk of 100.
C4_Witness ==
    /\ pc[1] = "done"
    /\ Cardinality(ValidRows) = 501
    /\ [k \in 1..2 |-> CallsFor(1, "product_raw_feed")[k].n] = <<500, 1>>
    /\ Len(CallsAt(1, 121)) > 1
    /\ queued[1] % 100 # 0

\* The last rows of a table are the rows of a buffer
EndsWith(table, rows) ==
    /\ Len(table) >= Len(rows)
    /\ SubSeq(table, Len(table) - Len(rows) + 1, Len(table)) = rows

\* C5: a run that completes has made, after the loop, exactly one leftover
\* call per buffer, in the order raw, products, offers, review queue, each
\* with the whole buffer; the store then holds every row the run buffered:
\* one raw row and one offer per lookup, one review row per queued row, and
\* for every buffered product the row of its identifier.
C5_FinalFlush ==
    (pc[1] = "done") =>
        LET c == calls[1]
            m == Len(c)
        IN  /\ m >= 4
            /\ [k \in 1..4 |-> c[m - 4 + k].line] = <<125, 126, 127, 128>>
            /\ [k \in 1..4 |-> c[m - 4 + k].table]
                 = <<"product_raw_feed", "products", "offers", "review_queue">>
            /\ [k \in 1..4 |-> c[m - 4 + k].n]
                 = <<Len(raw_rows[1]), Len(product_rows[1]), Len(offer_rows[1]),
                     Len(new_queue_rows[1])>>
            /\ \A k \in 1..(m - 4) : c[k].line \notin {125, 126, 127, 128}
            /\ EndsWith(db["product_raw_feed"], raw_rows[1])
            /\ EndsWith(db["offers"], offer_rows[1])
            /\ EndsWith(db["review_queue"], new_queue_rows[1])
            /\ \A k \in 1..Len(product_rows[1]) :
                  \E j \in 1..Len(db["products"]) :
                      db["products"][j].ean = product_rows[1][k].ean
            /\ Len(db["product_raw_feed"]) = selects[1]
            /\ Len(db["offers"]) = selects[1]
            /\ Len(db["review_queue"]) = queued[1]

\* A completed run whose leftover buffers were partly full and partly empty
C5_Witness ==
    /\ pc[1] = "done"
    /\ Len(raw_rows[1]) = 2
    /\ new_queue_rows[1] = Empty
    /\ Len(db["offers"]) = 2

\* C6: once a request to the store (lookup or write) got a non-success
\* response, the run has ended with the RuntimeError: it has sent no request
\* after the failed one and prints no row count.
C6_AbortOnStoreFailure ==
    \A p \in Runs :
        /\ failed[p] # -1 =>
              /\ pc[p] = "RuntimeError"
              /\ requests[p] = failed[p]
              /\ printed[p] = -1
        /\ pc[p] = "RuntimeError" => failed[p] # -1

\* The leftover flush of the raw rows failed: products, offers and review
\* rows stay unwritten.
C6_Witness ==
    /\ pc[1] = "RuntimeError"
    /\ Len(calls[1]) = 1
    /\ calls[1][1].line = 125
    /\ Len(product_rows[1]) = 2
    /\ Len(new_queue_rows[1]) = 1
    /\ db["offers"] = Empty
    /\ db["review_queue"] = Empty
    /\ requests[1] = 3

\* The rows with an identifier of a short feed, in feed order
ValidSeq == SelectSeq(feed.rows, LAMBDA r : Ean(r) # Empty)

\* A table of products without its timestamps
Blind(table) == [k \in 1..Len(table) |-> [table[k] EXCEPT !.updated_at = 0]]

\* The second of two runs has completed and no later run has started
SecondRunDone == pc[2] = "done" /\ \A q \in Runs : q > 2 => pc[q] = "idle"

\* C7 as stated: after the second of two completed runs on one feed every
\* Product row equals, field for field, the row the first run left.
C7_ProductsUnchanged == SecondRunDone => snapshots[2] = snapshots[1]

\* C7 amended: the Product rows are the same in every field but updated_at,
\* which holds the second run's timestamp for the identifiers of the feed;
\* the raw table holds the raw row of every row with an identifier twice,
\* and the offers table holds its offer twice, once per run timestamp.
C7_ProductsSameButTimestamp ==
    SecondRunDone =>
        /\ Blind(snapshots[2]) = Blind(snapshots[1])
        /\ \A k \in 1..Len(snapshots[2]) :
              snapshots[2][k].updated_at =
                  IF \E j \in 1..Len(ValidSeq) : Ean(ValidSeq[j]) = snapshots[2][k].ean
                  THEN now[2]
                  ELSE snapshots[1][k].updated_at
        /\ db["product_raw_feed"]
             = [k \in 1..Len(ValidSeq) |-> RawRow(ValidSeq[k])]
               \o [k \in 1..Len(ValidSeq) |-> RawRow(ValidSeq[k])]
        /\ db["offers"]
             = [k \in 1..Len(ValidSeq) |-> OfferRow(ValidSeq[k], now[1])]
               \o [k \in 1..Len(ValidSeq) |-> OfferRow(ValidSeq[k], now[2])]

\* Two runs at different times on a feed with the identifiers A (twice,
\* with different names) and B
C7_Witness ==
    /\ SecondRunDone
    /\ now[2] # now[1]
    /\ Len(ValidSeq) = 3
    /\ Len(snapshots[2]) = 2
    /\ snapshots[2] # snapshots[1]

\* C8: in concurrent runs a lookup that succeeds queues the identifier
\* exactly when the products table holds no row of it at that moment,
\* whatever the other run has buffered or queued; so both runs can queue
\* and write the same identifier (C8_Witness).
C8_Lookup(p) ==
    (pc[p] = "select" /\ pc'[p] = "chunk_raw") =>
        new_queue_rows'[p] =
            IF \A k \in 1..Len(db["products"]) : db["products"][k].ean # ean[p]
            THEN new_queue_rows[p] \o <<[product_ean |-> ean[p], reason |-> "new_product"]>>
            ELSE new_queue_rows[p]

C8_NoveltyIsJudgedAtLookup == [][\A p \in Runs : C8_Lookup(p)]_vars

\* Two runs over a feed of one row have both completed and the review queue
\* holds the row's identifier twice, once from each run.
C8_Witness ==
    /\ feed.n = 1
    /\ \A p \in {1, 2} : pc[p] = "done" /\ queued[p] = 1
    /\ Len(db["review_queue"]) >= 2
    /\ db["review_queue"][1].product_ean = <<"A">>
    /\ db["review_queue"][2].product_ean = <<"A">>

\* C9: every offer has a price that is absent or not below zero.
C9_PriceNeverNegative ==
    \A p \in Runs : \A k \in 1..Len(offer_rows[p]) :
        offer_rows[p][k].price = NoPrice \/ ~offer_rows[p][k].price.neg

\* A price as the offer holds it: a float, zero being absent
AsPrice(f) == IF f = ValueError THEN ValueError ELSE IF f.num = 0 THEN NoPrice ELSE f

\* C10: the offer of the row just normalized takes its price from
\* search_price when that is present and not empty, otherwise from
\* store_price when that is present and not empty, otherwise it has none;
\* "" with "12.50" gives 12.5 and "0" gives no price.
C10_PriceSelection ==
    \A p \in Runs :
        (pc[p] = "select") =>
            LET sp == Get(LastRow(p), "search_price")
                st == Get(LastRow(p), "store_price")
                price == offer_rows[p][Len(offer_rows[p])].price
            IN  /\ price =
                      IF sp # None /\ sp # Empty THEN AsPrice(Float(sp))
                      ELSE IF st # None /\ st # Empty THEN AsPrice(Float(st))
                      ELSE NoPrice
                /\ (sp = Empty /\ st = <<"1", "2", ".", "5", "0">>)
                      => price = [neg |-> FALSE, num |-> 125, exp |-> 1]
                /\ sp = <<"0">> => price = NoPrice

\* Primary "" and secondary "12.50": the offer's price is 12.5
C10_Witness ==
    /\ pc[1] = "select"
    /\ Get(LastRow(1), "search_price") = Empty
    /\ Get(LastRow(1), "store_price") = <<"1", "2", ".", "5", "0">>
    /\ offer_rows[1][1].price = [neg |-> FALSE, num |-> 125, exp |-> 1]

\* Primary "0" with a secondary price: the offer has no price
C10_WitnessZero ==
    /\ pc[1] = "select"
    /\ Get(LastRow(1), "search_price") = <<"0">>
    /\ Get(LastRow(1), "store_price") = <<"9", ".", "9", "9">>
    /\ offer_rows[1][1].price = NoPrice

\* A short feed carries its rows; a long feed only its length
IsShort(f) == f.n = Len(f.rows)

\* C11: the raw snapshot of a row with an identifier carries the row's whole
\* field mapping unchanged, columns and values, whatever was trimmed or
\* defaulted for the other fields; the raw table of a completed run holds
\* these payloads in feed order.  (json.dumps maps texts and None one to
\* one, so the payload is the mapping itself.)
C11_RawPayloadVerbatim ==
    /\ \A p \in Runs :
          (pc[p] = "select") =>
              /\ raw_rows[p][Len(raw_rows[p])].raw_json = FeedRow(feed, pos[p])
              /\ DOMAIN raw_rows[p][Len(raw_rows[p])].raw_json = DOMAIN FeedRow(feed, pos[p])
    /\ (pc[1] = "done" /\ IsShort(feed)) =>
          [k \in 1..Len(db["product_raw_feed"]) |-> db["product_raw_feed"][k].raw_json]
             = SelectSeq(feed.rows, LAMBDA r : Strip(Or(Get(r, "ean"), Empty)) # Empty)

\* A written snapshot whose identifier was trimmed and whose payload still
\* holds the untrimmed text and the missing merchant name
C11_Witness ==
    /\ pc[1] = "done"
    /\ Len(db["product_raw_feed"]) >= 1
    /\ db["product_raw_feed"][1].ean = <<"A">>
    /\ db["product_raw_feed"][1].raw_json["ean"] = <<" ", "A", " ">>
    /\ db["product_raw_feed"][1].raw_json["merchant_name"] = None

\* The feed is short and none of its rows has an identifier
NoValidRow ==
    /\ IsShort(feed)
    /\ \A k \in 1..feed.n : Strip(Or(Get(feed.rows[k], "ean"), Empty)) = Empty

\* C12: a call of supabase_upsert with an empty list sends no request (the
\* requests of a run are its lookups and its calls with rows), so it cannot
\* fail; a run over a feed without a row that has an identifier sends no
\* request, leaves every table as it was, never ends in an error and can
\* always take its next step until it is done, whatever the store would
\* answer.
C12_EmptyUpsertIsNoOp ==
    /\ \A p \in Runs :
          requests[p] = selects[p] + Len(SelectSeq(calls[p], LAMBDA c : c.n > 0))
    /\ NoValidRow =>
          /\ requests[1] = 0
          /\ selects[1] = 0
          /\ failed[1] = -1
          /\ pc[1] \notin {"RuntimeError", "ValueError"}
          /\ db["products"] \in InitialProducts
          /\ \A t \in Tables \ {"products"} : db[t] = Empty
          /\ pc[1] # "done" => ENABLED Step(1)
          /\ pc[1] = "done" => printed[1] = feed.n /\ Len(calls[1]) = 4

\* A feed of two rows without identifier, read to the end: four calls of
\* supabase_upsert and no request
C12_Witness ==
    /\ pc[1] = "done"
    /\ feed.n = 2
    /\ NoValidRow
    /\ Len(calls[1]) = 4
    /\ \A k \in 1..4 : calls[1][k].n = 0
    /\ requests[1] = 0

\* The stock texts of the model that read "1", "true" or "yes" once trimmed
\* and put in lower case, listed one by one
TrueStockTexts ==
    {<<"1">>, <<"t", "r", "u", "e">>, <<"y", "e", "s">>, <<"Y", "e", "s">>,
     <<"T", "R", "U", "E">>, <<" ", "y", "e", "s", "\t">>, <<" ", "T", "r", "u", "e">>}

\* C13: the offer of the row just normalized has in_stock true exactly when
\* the stock text, trimmed and in lower case, is "1", "true" or "yes"; any
\* other text, the empty text and a missing field give false.
C13_StockFlag ==
    \A p \in Runs :
        (pc[p] = "select") =>
            LET stock == Get(FeedRow(feed, pos[p]), "in_stock")
                offer == offer_rows[p][Len(offer_rows[p])]
            IN  /\ offer.in_stock = (stock \in TrueStockTexts)
                /\ stock \in {None, Empty, <<"n", "o">>, <<"0">>} => ~offer.in_stock

\* "TRUE" gives true
C13_Witness ==
    /\ pc[1] = "select"
    /\ Get(FeedRow(feed, pos[1]), "in_stock") = <<"T", "R", "U", "E">>
    /\ offer_rows[1][1].in_stock

\* A row without the in_stock column gives false
C13_WitnessMissing ==
    /\ pc[1] = "select"
    /\ "in_stock" \notin DOMAIN FeedRow(feed, pos[1])
    /\ ~offer_rows[1][1].in_stock

\* The positions of the rows of the feed that have an identifier, in order
ValidIdx ==
    SelectSeq([k \in 1..feed.n |-> k],
              LAMBDA k : Strip(Or(Get(FeedRow(feed, k), "ean"), Empty)) # Empty)

\* The identifier of the k-th row of the feed, trimmed as line 62 does
TrimmedEan(k) == Strip(Or(Get(FeedRow(feed, k), "ean"), Empty))

RECURSIVE SumN(_)
SumN(cs) == IF cs = Empty THEN 0 ELSE Head(cs).n + SumN(Tail(cs))

\* The rows run 1 has handed to supabase_upsert for a table in the loop,
\* plus the rows it holds in the buffer
Handled(table, buffer) ==
    SumN(SelectSeq(CallsFor(1, table), LAMBDA c : c.line < 125)) + Len(buffer)

\* C14: in a run without store failure every row with an identifier gives
\* one raw snapshot, one product and one offer, which carry its trimmed
\* identifier and (product, offer) the timestamp of the run; each is in the
\* buffer or in one chunk already sent, never in both and never lost; the
\* three streams are sent in the same chunks; and a completed run has
\* written the raw snapshots and the offers of these rows, one each, in feed
\* order, and a product for each of their identifiers.
C14_ExactlyOnce ==
    /\ (pc[1] = "select") =>
          LET e == TrimmedEan(pos[1])
              n == Len(raw_rows[1])
          IN  /\ Len(product_rows[1]) = n /\ Len(offer_rows[1]) = n
              /\ raw_rows[1][n].ean = e
              /\ product_rows[1][n].ean = e
              /\ product_rows[1][n].updated_at = now[1]
              /\ offer_rows[1][n].product_ean = e
              /\ offer_rows[1][n].last_seen = now[1]
    /\ (pc[1] = "for") =>
          /\ Handled("product_raw_feed", raw_rows[1]) = selects[1]
          /\ Handled("products", product_rows[1]) = selects[1]
          /\ Handled("offers", offer_rows[1]) = selects[1]
    /\ (pc[1] = "done") =>
          LET raw == db["product_raw_feed"]
              offers == db["offers"]
              valid == ValidIdx
              eans == [k \in 1..Len(valid) |-> TrimmedEan(valid[k])]
              sent(t) == [k \in 1..Len(CallsFor(1, t)) |-> CallsFor(1, t)[k].n]
          IN  /\ selects[1] = Len(valid)
              /\ sent("products") = sent("product_raw_feed")
              /\ sent("offers") = sent("product_raw_feed")
              /\ SumN(CallsFor(1, "products")) = Len(valid)
              /\ [k \in 1..Len(raw) |-> raw[k].ean] = eans
              /\ [k \in 1..Len(offers) |-> offers[k].product_ean] = eans
              /\ \A k \in 1..Len(offers) : offers[k].last_seen = now[1]
              /\ \A e \in {eans[k] : k \in 1..Len(eans)} :
                    \E j \in 1..Len(db["products"]) :
                        /\ db["products"][j].ean = e
                        /\ db["products"][j].updated_at = now[1]
              /\ IsShort(feed) =>
                    /\ raw = [k \in 1..Len(valid) |-> RawRow(feed.rows[valid[k]])]
                    /\ offers = [k \in 1..Len(valid) |->
                                    OfferRow(feed.rows[valid[k]], now[1])]

\* A completed run over a feed of 500 rows with an identifier, sent in one
\* chunk of 500 each, the final flush finding the buffers empty
C14_Witness ==
    /\ pc[1] = "done"
    /\ ~IsShort(feed)
    /\ CallsFor(1, "products")[1].n = 500
    /\ Len(db["product_raw_feed"]) = 500
    /\ Len(db["offers"]) = 500

\* A completed run over two rows of the same identifier, one of them with
\* blanks around it
C14_WitnessTrimmed ==
    /\ pc[1] = "done"
    /\ IsShort(feed)
    /\ Len(db["offers"]) = 2
    /\ db["offers"][1].product_ean = db["offers"][2].product_ean
    /\ feed.rows[1]["ean"] # feed.rows[2]["ean"]

\* An entry of the review queue, written or waiting in the buffer of run 1,
\* names the identifier
Enqueued(e) ==
    \/ \E j \in 1..Len(new_queue_rows[1]) : new_queue_rows[1][j].product_ean = e
    \/ \E j \in 1..Len(db["review_queue"]) : db["review_queue"][j].product_ean = e

\* C15: in a single run without store failure and without a concurrent
\* run, the lookup for a row happens while the product of that row is still
\* in the buffer; once the lookup has answered, the identifier of the row was
\* in the products table before the run or has an entry of the review queue
\* (buffered or written); and when the run has completed, every identifier
\* of a row with an identifier that the products table lacked before the run
\* has at least one written entry of the review queue.
C15_NoMissedNovelty ==
    /\ (pc[1] = "select") =>
          /\ product_rows[1] # Empty
          /\ product_rows[1][Len(product_rows[1])].ean = ean[1]
    /\ (pc[1] = "chunk_raw") =>
          Existing(before, ean[1]) \/ Enqueued(ean[1])
    /\ (pc[1] = "done") =>
          LET valid == ValidIdx
          IN  \A e \in {TrimmedEan(valid[k]) : k \in 1..Len(valid)} :
                  \/ Existing(before, e)
                  \/ \E j \in 1..Len(db["review_queue"]) :
                        db["review_queue"][j].product_ean = e

\* A completed run over a feed with the identifier A, new, and the
\* identifier B, which the products table held before the run: the review
\* queue names A and not B
C15_Witness ==
    /\ pc[1] = "done"
    /\ IsShort(feed)
    /\ before = <<OldB>>
    /\ \E k \in 1..feed.n : TrimmedEan(k) = <<"A">>
    /\ \E k \in 1..feed.n : TrimmedEan(k) = <<"B">>
    /\ \E j \in 1..Len(db["review_queue"]) : db["review_queue"][j].product_ean = <<"A">>
    /\ \A j \in 1..Len(db["review_queue"]) : db["review_queue"][j].product_ean # <<"B">>

\* A completed run in which the products of the first 500 rows were written
\* in the loop, and later rows of the same new identifier were found by the
\* lookup
C15_WitnessLong ==
    /\ pc[1] = "done"
    /\ ~IsShort(feed)
    /\ before = Empty
    /\ queued[1] < selects[1]

\* C16: in every state of the store a single run can leave, the states
\* left by a run a request of which failed included, every row of the offers
\* table names an identifier that a row of the products table carries; the
\* product and offer buffers have one length at the head of the loop, and
\* when the offers are about to be sent the products of the same rows have
\* been sent by the call before.
C16_OfferNamesWrittenProduct ==
    /\ LET written == {db["products"][j].ean : j \in 1..Len(db["products"])}
       IN  \A k \in 1..Len(db["offers"]) : db["offers"][k].product_ean \in written
    /\ (pc[1] = "for") => Len(product_rows[1]) = Len(offer_rows[1])
    /\ (\/ pc[1] = "flush_offers"
        \/ pc[1] = "chunk_offers" /\ Full(offer_rows[1], OFFER_CHUNK)) =>
          /\ calls[1] # Empty
          /\ calls[1][Len(calls[1])].table = "products"
          /\ calls[1][Len(calls[1])].n = Len(offer_rows[1])

\* A run aborted by the failure of the request that writes the last offers:
\* the offers of the first 500 rows are in the store and the products of all
\* rows, the offers of the last rows are not
C16_Witness ==
    /\ pc[1] = "RuntimeError"
    /\ calls[1] # Empty
    /\ calls[1][Len(calls[1])] = [table |-> "offers", n |-> 1, line |-> 127]
    /\ Len(db["offers"]) = 500
    /\ Len(db["product_raw_feed"]) = 501

\* A run aborted by the failure of the first request that writes products:
\* the store holds neither products nor offers of the run
C16_WitnessNone ==
    /\ pc[1] = "RuntimeError"
    /\ before = Empty
    /\ calls[1] # Empty
    /\ calls[1][Len(calls[1])] = [table |-> "products", n |-> 2, line |-> 126]
    /\ db["products"] = Empty
    /\ db["offers"] = Empty

\* The ways a run ends early
Aborted == {"RuntimeError", "ValueError"}

\* The threshold checks of lines 111-122 and the leftover flushes of lines
\* 125-128
FlushStep ==
    {"chunk_raw", "chunk_products", "chunk_offers", "chunk_queue",
     "flush_raw", "flush_products", "flush_offers", "flush_queue"}

\* At the head of the loop the three main lists have one length, below 500,
\* and the queue list is shorter than 100
BoundedAtLoopStart ==
    \A p \in Runs :
        (pc[p] = "for") =>
            /\ Len(raw_rows[p]) = Len(product_rows[p])
            /\ Len(product_rows[p]) = Len(offer_rows[p])
            /\ Len(raw_rows[p]) < RAW_CHUNK
            /\ Len(new_queue_rows[p]) < QUEUE_CHUNK

\* The lists of run p hold at most m rows each and the queue list at most q
AtMost(p, m, q) ==
    /\ Len(raw_rows[p]) <= m
    /\ Len(product_rows[p]) <= m
    /\ Len(offer_rows[p]) <= m
    /\ Len(new_queue_rows[p]) <= q

C17_WitnessQueue ==
    /\ pc[1] = "RuntimeError"
    /\ Len(new_queue_rows[1]) = QUEUE_CHUNK
    /\ calls[1] # Empty
    /\ calls[1][Len(calls[1])] = [table |-> "review_queue", n |-> 100, line |-> 121]

\* C18: a run started after the run before it has completed on the same
\* feed, no run being concurrent, finds every identifier it looks up in the
\* products table, appends nothing to new_queue_rows and sends no queue
\* row: the review_queue table holds what the first run wrote.
C18_SecondRunEnqueuesNothing ==
    \A p \in Runs :
        (p > 1) =>
            /\ (pc[p] = "select") => Existing(db["products"], ean[p])
            /\ queued[p] = 0
            /\ new_queue_rows[p] = Empty
            /\ \A k \in 1..Len(CallsFor(p, "review_queue")) :
                  CallsFor(p, "review_queue")[k].n = 0
            /\ (pc[p] # "idle") =>
                  /\ Len(db["review_queue"]) = queued[1]
                  /\ db["review_queue"] =
                        [k \in 1..queued[1] |-> QueueRow(db["review_queue"][k].product_ean)]

\* The second run has completed on a feed of two rows with an identifier,
\* for both of which the first run wrote a queue row
C18_Witness ==
    /\ SecondRunDone
    /\ selects[2] = 2
    /\ queued[1] = 2
    /\ Len(db["review_queue"]) = 2
    /\ CallsAt(2, 128) = <<[table |-> "review_queue", n |-> 0, line |-> 128]>>

====
